---- MODULE Spec2Model ----
(***************************************************************************)
(* A model of ftpcmd.py: the FTPClient transfer engine (resumable single   *)
(* file upload and download, recursive directory upload and download) and  *)
(* the download branch of main(), run against an FTP server and a local    *)
(* file system that answer as ftplib and the operating system do.          *)
(*                                                                         *)
(* Sizes are counted in abstract units (one unit = one chunk of data).     *)
(* Remote paths are sequences of segment names resolved from the server's  *)
(* root or from its working directory.                                     *)
(***************************************************************************)
EXTENDS Integers, Sequences, FiniteSets, TLC

\* ---------------------------------------------------------------- bounds
\* Largest file size, in units.
MaxSize == 2
\* The max_depth argument given to download_directory (the code's default is
\* 50; the model passes a small value so that the depth cut happens).
MaxDepth == 1

\* ------------------------------------------------------------- utilities
Max(a, b) == IF a >= b THEN a ELSE b

Min(a, b) == IF a <= b THEN a ELSE b

Sizes == 0..MaxSize

Root == <<>>

\* os.path.dirname / os.path.basename on a path given as its segments.
Parent(p) == IF p = <<>> THEN <<>> ELSE SubSeq(p, 1, Len(p) - 1)

Basename(p) == p[Len(p)]

\* A path as the program writes it: absolute ("/a/b") or relative ("a/b").
AbsPath(segs) == [abs |-> TRUE, segs |-> segs]

RelPath(segs) == [abs |-> FALSE, segs |-> segs]

\* ------------------------------------------------------------ FTP server
\* The server is a record:
\*   dirs     the directories that exist (absolute segment sequences)
\*   files    existing files, a function from path to size
\*   cwd      the connection's working directory
\*   noCwd    directories the user may not enter (CWD is refused)
\*   noMkd    directories the user may not create (MKD is refused)
\*   noList   directories whose LIST is refused
\*   sizeCmd  how the server answers SIZE for an existing file:
\*            "ok" (213 <n>), "err" (an error reply), "none" (a positive
\*            reply other than 213, for which ftplib's size() returns None)
\*   loop     directories that list themselves: a directory D in loop holds
\*            an entry with D's own name that is D again (a link the server
\*            presents as a directory), so its listing is cyclic
\*   raw      the LIST reply, line by line, of the directories whose reply
\*            is not in the long format of ListLines
\*   log      the requests issued since the current call began

\* The directory a path denotes once the cyclic entries are followed.
RECURSIVE Canon(_, _)
Canon(loop, p) ==
    IF loop = {} THEN p
    ELSE LET ks == {k \in 1..(Len(p) - 1) :
                        SubSeq(p, 1, k) \in loop /\ p[k + 1] = p[k]}
         IN IF ks = {} THEN p
            ELSE LET k == CHOOSE k \in ks : \A j \in ks : k <= j
                 IN Canon(loop, SubSeq(p, 1, k) \o SubSeq(p, k + 2, Len(p)))

\* How the server resolves the path argument of a command.
Resolve(s, p) == Canon(s.loop, IF p.abs THEN p.segs ELSE s.cwd \o p.segs)

Logged(s, cmd, p) ==
    [s EXCEPT !.log = Append(@, [cmd |-> cmd, path |-> Resolve(s, p), cwd |-> s.cwd])]

Issued(s, cmd) == \E i \in 1..Len(s.log) : s.log[i].cmd = cmd

\* ftp.cwd(p): succeeds iff the resolved path is a directory the user may enter.
CwdOk(s, p) == Resolve(s, p) \in s.dirs /\ Resolve(s, p) \notin s.noCwd

Cwd(s, p) ==
    IF CwdOk(s, p)
    THEN [Logged(s, "CWD", p) EXCEPT !.cwd = Resolve(s, p)]
    ELSE Logged(s, "CWD", p)

\* The server that reports every MKD as done.
MkdOk_Always(s, p) == TRUE

\* ftp.mkd(p): succeeds iff nothing has that name, its parent exists and the
\* user may create it.
MkdOk(s, p) ==
    /\ Resolve(s, p) \notin s.dirs
    /\ Resolve(s, p) \notin DOMAIN s.files
    /\ Parent(Resolve(s, p)) \in s.dirs
    /\ Resolve(s, p) \notin s.noMkd

Mkd(s, p) ==
    IF MkdOk(s, p)
    THEN [Logged(s, "MKD", p) EXCEPT !.dirs = @ \cup {Resolve(s, p)}]
    ELSE Logged(s, "MKD", p)

\* ftp.size(p): "val" with the size, "err" (ftplib raises) or "none" (ftplib
\* returns None).
SizeReply(s, p) ==
    IF Resolve(s, p) \notin DOMAIN s.files \/ s.sizeCmd = "err"
    THEN [kind |-> "err", n |-> 0]
    ELSE IF s.sizeCmd = "none"
    THEN [kind |-> "none", n |-> 0]
    ELSE [kind |-> "val", n |-> s.files[Resolve(s, p)]]

\* STOR is accepted iff the target's directory exists and the target is not a
\* directory.
StorOk(s, p) ==
    /\ Resolve(s, p) # <<>>
    /\ Parent(Resolve(s, p)) \in s.dirs
    /\ Resolve(s, p) \notin s.dirs

\* The remote file after REST rest + STOR p received `sent` units: REST 0
\* truncates, REST n > 0 writes from offset n on.
Stored(s, p, rest, sent) ==
    [s EXCEPT !.files =
        [q \in DOMAIN @ \cup {Resolve(s, p)} |->
            IF q = Resolve(s, p) THEN rest + sent ELSE @[q]]]

\* ---------------------------------------------- ensure_remote_directory
\* The loop over the path's segments: cwd into each, mkd + cwd when the cwd
\* fails. Returns the server afterwards and whether every step succeeded.
\* (s is the value of s0, the server the loop continues from.)
RECURSIVE EnsureSegs(_, _)
EnsureSegs(s0, segs) ==
    CHOOSE r \in
        {IF segs = <<>> THEN [srv |-> s, ok |-> TRUE]
         ELSE LET d == RelPath(<<Head(segs)>>) IN
              IF CwdOk(s, d) THEN EnsureSegs(Cwd(s, d), Tail(segs))
              ELSE LET s1 == Cwd(s, d) IN
                   IF ~MkdOk(s1, d) THEN [srv |-> Mkd(s1, d), ok |-> FALSE]
                   ELSE LET s2 == Mkd(s1, d) IN
                        IF CwdOk(s2, d) THEN EnsureSegs(Cwd(s2, d), Tail(segs))
                        ELSE [srv |-> Cwd(s2, d), ok |-> FALSE]
         : s \in {s0}} : TRUE

\* The ensure that starts from the working directory instead of the root.
ensure_remote_directory_NoRoot(s, p) == EnsureSegs(s, p.segs)

\* ensure_remote_directory(remote_path): cwd('/') first, then the segments
\* (remote_path.split('/') without the empty ones, so a leading '/' is
\* immaterial).
ensure_remote_directory(s, p) ==
    IF ~CwdOk(s, AbsPath(Root)) THEN [srv |-> Cwd(s, AbsPath(Root)), ok |-> FALSE]
    ELSE EnsureSegs(Cwd(s, AbsPath(Root)), p.segs)

\* ------------------------------------------------------ local file system
\* The local file system is a function from the paths that exist to nodes
\* [kind |-> "file" | "dir", size |-> n].
FileNode(n) == [kind |-> "file", size |-> n]

DirNode == [kind |-> "dir", size |-> 0]

\* The test that only asks whether the path exists.
IsFile_Exists(l, p) == p \in DOMAIN l

IsFile(l, p) == p \in DOMAIN l /\ l[p].kind = "file"

IsDir(l, p) == p \in DOMAIN l /\ l[p].kind = "dir"

Prefixes(p) == {SubSeq(p, 1, n) : n \in 0..Len(p)}

\* Path(d).mkdir(parents=True, exist_ok=True): raises when d or one of its
\* ancestors exists and is not a directory.
MkdirOk(l, d) == \A q \in Prefixes(d) : ~IsFile(l, q)

Mkdir(l, d) ==
    [q \in DOMAIN l \cup Prefixes(d) |-> IF q \in DOMAIN l THEN l[q] ELSE DirNode]

\* The file system with file p holding n units.
WithFile(l, p, n) ==
    [q \in DOMAIN l \cup {p} |-> IF q = p THEN FileNode(n) ELSE l[q]]

\* ------------------------------------------------------------ upload_file
\* What one call of a single-file transfer did:
\*   returned  FALSE when the process was terminated during the transfer
\*   ret       the value returned
\*   xfer      a STOR / RETR request was issued
\*   rest      its starting offset (the rest= argument)
\*   seek      upload: the position the local file was read from
\*   moved     units streamed by the store / retrieve operation
\*   finished  the store / retrieve operation ended normally (no exception)
\*   size      upload: file_size; download: remote_size
\*   other     upload: remote_size; download: local_size
\*   mode      download: the mode the local file was opened in
\*   target    download: the local file written
NoTransfer(ret) ==
    [returned |-> TRUE, ret |-> ret, xfer |-> FALSE, rest |-> 0, seek |-> 0,
     moved |-> 0, finished |-> FALSE, size |-> 0, other |-> 0, mode |-> "-",
     target |-> <<>>]

\* The decision with the upper comparison made inclusive.
UploadStart_Inclusive(remote_size, file_size) ==
    IF remote_size > 0 /\ remote_size <= file_size THEN remote_size ELSE 0

\* The decision that never resumes.
UploadStart_Restart(remote_size, file_size) == 0

\* The resume decision of upload_file (lines 130-136): the starting offset.
UploadStart(remote_size, file_size) ==
    IF remote_size > 0 /\ remote_size < file_size THEN remote_size ELSE 0

\* The environment of one transfer:
\*   now  the size of the source file when the data is read (the file may have
\*        changed since its size was taken)
\*   end  how the data transfer ends: "ok", "error" (an exception: the
\*        connection broke or the final reply was an error) or "killed" (the
\*        process was terminated)
\*   cut  units that got through before an "error" or "killed" end
TransferEnv ==
    [now : Sizes, end : {"ok", "error", "killed"}, cut : Sizes]

\* Units streamed: storbinary reads the file from the seek position to its
\* end; retrbinary receives until the server closes the data connection.
Streamed(env, start) ==
    IF env.end = "ok" THEN Max(env.now - start, 0)
    ELSE Min(env.cut, Max(env.now - start, 0))

\* The result that ignores how the store ended.
UploadResult_Always(storEnd, start, moved, file_size) == TRUE

\* The value upload_file returns after storbinary (lines 155-162): True when
\* the store ended without an exception.
UploadResult(storEnd, start, moved, file_size) == storEnd = "ok"

\* upload_file(local_file, remote_file) on server s and local file system l.
upload_file(s, l, lp, rf, env) ==
    IF ~IsFile(l, lp) THEN [srv |-> s, lfs |-> l, r |-> NoTransfer(FALSE)]
    ELSE
    LET file_size == l[lp].size
        rep == SizeReply(s, rf)
        s1 == Logged(s, "SIZE", rf)
        remote_size == IF rep.kind = "val" THEN rep.n ELSE 0
        start_pos == UploadStart(remote_size, file_size)
        hasDir == rf.abs \/ Len(rf.segs) > 1
        ens == IF hasDir THEN ensure_remote_directory(s1, AbsPath(Parent(rf.segs)))
               ELSE [srv |-> s1, ok |-> TRUE]
        s2 == Logged(ens.srv, "STOR", rf)
        moved == Streamed(env, start_pos)
        l2 == WithFile(l, lp, env.now)
        base == [NoTransfer(FALSE) EXCEPT !.size = file_size, !.other = remote_size]
    IN
    IF rep.kind = "none" THEN [srv |-> s1, lfs |-> l, r |-> base]
    ELSE IF ~ens.ok THEN [srv |-> ens.srv, lfs |-> l, r |-> base]
    ELSE IF ~StorOk(ens.srv, rf)
    THEN [srv |-> s2, lfs |-> l,
          r |-> [base EXCEPT !.xfer = TRUE, !.rest = start_pos, !.seek = start_pos]]
    ELSE [srv |-> Stored(s2, rf, start_pos, moved), lfs |-> l2,
          r |-> [base EXCEPT !.xfer = TRUE, !.rest = start_pos, !.seek = start_pos,
                             !.moved = moved, !.finished = (env.end = "ok"),
                             !.returned = (env.end # "killed"),
                             !.ret = UploadResult(env.end, start_pos, moved, file_size)]]

\* ---------------------------------------------------------- download_file
\* The decision without the "already complete" case.
DownloadMode_NoSkip(local_size, remote_size) ==
    IF local_size <= remote_size THEN [mode |-> "ab", start |-> local_size]
    ELSE [mode |-> "wb", start |-> 0]

\* The resume decision of download_file for an existing local file of
\* local_size (lines 223-233 and 240-250): "done" (already complete), or the
\* open mode and the starting offset.
DownloadMode(local_size, remote_size) ==
    IF local_size = remote_size THEN [mode |-> "done", start |-> 0]
    ELSE IF local_size < remote_size THEN [mode |-> "ab", start |-> local_size]
    ELSE [mode |-> "wb", start |-> 0]

\* The decision for a local path that does not exist (lines 251-256).
FreshDownload == [mode |-> "wb", start |-> 0]

\* The local file download_file writes (line 236): the path given, or
\* local_file/basename(remote_file) when the path given is not a regular file
\* but exists.
DownloadTarget(l, lp, rf) ==
    IF lp \in DOMAIN l /\ ~IsFile(l, lp) THEN lp \o <<Basename(rf.segs)>> ELSE lp

\* Lines 217-256: the target together with the decision for it.
DownloadPlan(l, lp, rf, remote_size) ==
    LET t == DownloadTarget(l, lp, rf)
        d == IF IsFile(l, t) THEN DownloadMode(l[t].size, remote_size)
             ELSE FreshDownload
    IN [target |-> t, mode |-> d.mode, start |-> d.start,
        local_size |-> IF IsFile(l, t) THEN l[t].size ELSE 0]

\* RETR is accepted iff the file exists.
RetrOk(s, p) == Resolve(s, p) \in DOMAIN s.files

\* The remote file as it is when the RETR is served.
RemoteNow(s, p, n) == [s EXCEPT !.files[Resolve(s, p)] = n]

\* The value download_file returns after retrbinary (lines 270-277): True
\* when the retrieve ended without an exception.
DownloadResult(retrEnd, start, moved, remote_size) == retrEnd = "ok"

\* download_file(remote_file, local_file) on server s and local file system l.
download_file(s, l, rf, lp, env) ==
    LET rep == SizeReply(s, rf)
        s1 == Logged(s, "SIZE", rf)
        remote_size == rep.n
        plan == DownloadPlan(l, lp, rf, remote_size)
        base == [NoTransfer(FALSE) EXCEPT !.size = remote_size,
                     !.other = plan.local_size, !.mode = plan.mode,
                     !.target = plan.target]
        l1 == Mkdir(l, Parent(plan.target))
        kept == IF plan.mode = "ab" THEN plan.local_size ELSE 0
        l2 == WithFile(l1, plan.target, kept)
        s2 == Logged(s1, "RETR", rf)
        moved == Streamed(env, plan.start)
    IN
    IF rep.kind # "val" THEN [srv |-> s1, lfs |-> l, r |-> NoTransfer(FALSE)]
    ELSE IF plan.mode = "done" THEN [srv |-> s1, lfs |-> l, r |-> [base EXCEPT !.ret = TRUE]]
    ELSE IF ~MkdirOk(l, Parent(plan.target)) THEN [srv |-> s1, lfs |-> l, r |-> base]
    ELSE IF IsDir(l1, plan.target) THEN [srv |-> s1, lfs |-> l1, r |-> base]
    ELSE IF ~RetrOk(s2, rf)
    THEN [srv |-> s2, lfs |-> l2, r |-> [base EXCEPT !.xfer = TRUE, !.rest = plan.start]]
    ELSE [srv |-> RemoteNow(s2, rf, env.now),
          lfs |-> WithFile(l1, plan.target, kept + moved),
          r |-> [base EXCEPT !.xfer = TRUE, !.rest = plan.start, !.moved = moved,
                             !.finished = (env.end = "ok"),
                             !.returned = (env.end # "killed"),
                             !.ret = DownloadResult(env.end, plan.start, moved, remote_size)]]

\* ------------------------------------------------------- directory trees
\* The entry names of the scenarios, in the order a directory is enumerated.
NameOrder == <<"b", "e", "f", "g", "h">>

\* Concatenation of a sequence of sequences.
RECURSIVE Flatten(_)
Flatten(ss) == IF ss = <<>> THEN <<>> ELSE Head(ss) \o Flatten(Tail(ss))

\* os.walk(local_dir), top-down: each directory, then its files, then the
\* walks of its subdirectories.
RECURSIVE Walk(_, _)
Walk(l, d) ==
    LET files == SelectSeq(NameOrder, LAMBDA n : IsFile(l, d \o <<n>>))
        dirs == SelectSeq(NameOrder, LAMBDA n : IsDir(l, d \o <<n>>))
    IN <<[kind |-> "dir", path |-> d]>>
       \o [i \in 1..Len(files) |-> [kind |-> "file", path |-> d \o <<files[i]>>]]
       \o Flatten([i \in 1..Len(dirs) |-> Walk(l, d \o <<dirs[i]>>)])

\* os.path.join(remote_dir, os.path.relpath(p, local_dir)) for a local path p
\* under local_dir.
RemoteOf(remote_dir, local_dir, p) ==
    [remote_dir EXCEPT !.segs = @ \o SubSeq(p, Len(local_dir) + 1, Len(p))]

\* One line of a LIST reply in the long format.
ListLine(perm, name) == perm \o " 1 ftp ftp 0 Jan 1 00:00 " \o name

\* LIST is answered iff the working directory may be listed.
ListOk(s) == s.cwd \notin s.noList

\* The LIST reply for the working directory: the lines the server is set to
\* send for it, else a "total" line, "." and "..", then the subdirectories and
\* the files.
ListLines(s) ==
    IF s.cwd \in DOMAIN s.raw THEN s.raw[s.cwd] ELSE
    LET dirs == SelectSeq(NameOrder, LAMBDA n : Canon(s.loop, s.cwd \o <<n>>) \in s.dirs)
        files == SelectSeq(NameOrder, LAMBDA n : s.cwd \o <<n>> \in DOMAIN s.files)
    IN <<"total 0", ListLine("drwxr-xr-x", "."), ListLine("drwxr-xr-x", "..")>>
       \o [i \in 1..Len(dirs) |-> ListLine("drwxr-xr-x", dirs[i])]
       \o [i \in 1..Len(files) |-> ListLine("-rw-r--r--", files[i])]

\* The characters str.split() treats as separators.
IsSpace(c) == c \in {" ", "\t"}

\* item.split() (line 372): the maximal runs of non-separator characters,
\* in the order of their first characters.
Split(item) ==
    LET n == Len(item)
        Sep(i) == i < 1 \/ i > n \/ IsSpace(SubSeq(item, i, i))
        starts == {i \in 1..n : ~Sep(i) /\ Sep(i - 1)}
        ends == {i \in 1..n : ~Sep(i) /\ Sep(i + 1)}
        Nth(S, m) == CHOOSE i \in S : Cardinality({j \in S : j < i}) = m - 1
    IN CHOOSE parts \in
            {[m \in 1..Cardinality(S) |-> SubSeq(item, Nth(S, m), Nth(E, m))] :
                S \in {starts}, E \in {ends}} : TRUE

\* parts[0].startswith('d') (line 376).
StartsWithD(tok) == Len(tok) >= 1 /\ SubSeq(tok, 1, 1) = "d"

\* ' '.join(words) (line 378).
RECURSIVE Join(_)
Join(words) ==
    IF words = <<>> THEN ""
    ELSE IF Len(words) = 1 THEN words[1]
    ELSE words[1] \o " " \o Join(Tail(words))

\* The parse that takes the name from the 8th token on.
ParseLine_FromEighth(parts) ==
    IF Len(parts) < 3 THEN [skip |-> TRUE, is_dir |-> FALSE, filename |-> ""]
    ELSE LET filename == IF Len(parts) >= 8 THEN Join(SubSeq(parts, 8, Len(parts)))
                         ELSE parts[Len(parts)]
         IN [skip |-> filename \in {".", ".."},
             is_dir |-> StartsWithD(parts[1]),
             filename |-> filename]

\* Lines 373-381: the tokens of one listing line parsed. skip is TRUE for a
\* line the loop passes over.
ParseLine(parts) ==
    IF Len(parts) < 3 THEN [skip |-> TRUE, is_dir |-> FALSE, filename |-> ""]
    ELSE LET filename == IF Len(parts) >= 9 THEN Join(SubSeq(parts, 9, Len(parts)))
                         ELSE parts[Len(parts)]
         IN [skip |-> filename \in {".", ".."},
             is_dir |-> StartsWithD(parts[1]),
             filename |-> filename]

\* The environment of a transfer inside a directory operation: the source
\* keeps its size, the transfer ends normally or with an exception.
WalkEnv(size) == {[now |-> size, end |-> e, cut |-> 0] : e \in {"ok", "error"}}

\* A pending or running call of download_recursive.
Frame(rdir, ldir, depth) ==
    [rdir |-> rdir, ldir |-> ldir, depth |-> depth, items |-> <<>>, entered |-> FALSE]

\* The depth test that lets one more level through.
DepthCut_OneMore(depth, max_depth) == depth > max_depth + 1

\* The depth test of download_recursive (line 357).
DepthCut(depth, max_depth) == depth > max_depth

\* The stack with its top frame removed.
Pop(st) == SubSeq(st, 1, Len(st) - 1)

\* The stack with the first remaining item of its top frame consumed.
Advance(st) == [st EXCEPT ![Len(st)].items = Tail(@)]

\* The count that goes up with every attempt.
Counted_Always(success, ok) == success + 1

\* success_count after a file attempt that returned ok (lines 320-321 and
\* 392-393).
Counted(success, ok) == IF ok THEN success + 1 ELSE success

\* The result that only asks for some success.
Tally_Lenient(success, total) == success > 0 \/ total = 0

\* What upload_directory and download_directory return (lines 324, 403).
Tally(success, total) == success = total

\* ------------------------------------------------------------------ state
VARIABLES
    op,             \* what this run does: one method of FTPClient called
                    \* directly, or "main_get" (main() with --get)
    args_local,     \* main(): how --local was given: "none", "plain" (a
                    \* path) or "slash" (a path ending in '/')
    call,           \* the FTPClient method running or last run, "none" before
                    \* main() has chosen one
    rpath,          \* its remote path argument
    lpath,          \* its local path argument
    srv,            \* the FTP server and the connection's working directory
    lfs,            \* the local file system
    pc,             \* where the operation is
    res,            \* what the latest single-file transfer did
    ret,            \* the value the method returned: "none" until it returns
    before,         \* the server and the local files when the current
                    \* invocation began, and how the previous one ended
    success_count,  \* the tally of the directory operation
    total_count,
    todo,           \* upload_directory: what os.walk has yet to yield
    stack,          \* download_directory: the calls of download_recursive
    tried,          \* the single-file transfers a directory operation made
    hist,           \* what happened during the operation (see NoHist)
    exit,           \* main(): the process exit code, "none" until it exits
    ftp,            \* self.ftp, the control connection: "none" (None), "open",
                    \* "quit" (released by QUIT) or "closed" (force-closed)
    connected       \* self.connected

vars == <<op, args_local, call, rpath, lpath, srv, lfs, pc, res, ret, before,
          success_count, total_count, todo, stack, tried, hist, exit, ftp,
          connected>>

walkVars == <<success_count, total_count, todo, stack, tried>>

connVars == <<ftp, connected>>

Bool(b) == IF b THEN "true" ELSE "false"

\* History of one operation:
\*   probe       main(): what the remote path probe found
\*   walked      the directory walk began
\*   listed      remote directories (as resolved by the server) listed
\*   listFailed  download_recursive calls whose cwd or LIST failed (the
\*               directory as the program wrote it)
\*   mkdirFailed local directories whose creation raised
\*   cut         remote directories cut by the depth limit
NoHist ==
    [probe |-> "none", walked |-> FALSE, listed |-> {}, listFailed |-> {},
     mkdirFailed |-> {}, cut |-> {}]

\* The paths the scenarios use.
SrcDir == <<"src">>

SrcFile == <<"src", "f">>

OutPath == <<"out">>

RemoteDir == <<"d">>

RemoteFile == <<"d", "f">>

\* A server holding the given directories and files, with its policy.
Server(dirs, files, noCwd, noMkd, noList, sizeCmd) ==
    [dirs |-> dirs \cup {Root}, files |-> files, cwd |-> Root, noCwd |-> noCwd,
     noMkd |-> noMkd, noList |-> noList, sizeCmd |-> sizeCmd, loop |-> {},
     raw |-> [q \in {} |-> <<>>], log |-> <<>>]

\* The server s with the directories of D listing themselves.
Looping(s, D) == [s EXCEPT !.loop = D]

\* The server s sending `lines` as the LIST reply for directory d.
Listing(s, d, lines) == [s EXCEPT !.raw = [q \in {d} |-> lines]]

NoFiles == [q \in {} |-> 0]

OneFile(q, n) == [x \in {q} |-> n]

LocalRoot == [q \in {Root} |-> DirNode]

\* The size of a file, 0 when it does not exist.
RemoteSize(s, q) == IF q \in DOMAIN s.files THEN s.files[q] ELSE 0

LocalSize(l, q) == IF IsFile(l, q) THEN l[q].size ELSE 0

\* The snapshot an invocation starts from. `after` is "first" for the first
\* invocation, else "interrupted" (the previous transfer did not end normally)
\* or "ended".
Snapshot(s, l, after) == [srv |-> s, lfs |-> l, after |-> after]

\* The remote tree of the download scenarios: d holds b/, e/ and f; every b
\* holds b/ and g, down to one level below the depth limit, where it holds h.
RECURSIVE Chain(_)
Chain(k) == IF k = 0 THEN RemoteDir ELSE Chain(k - 1) \o <<"b">>

TreeDirs == {Chain(k) : k \in 0..(MaxDepth + 1)} \cup {RemoteDir \o <<"e">>}

TreeFiles ==
    [q \in {RemoteFile} \cup {Chain(k) \o <<"g">> : k \in 1..MaxDepth}
           \cup {Chain(MaxDepth + 1) \o <<"h">>} |-> 1]

\* The local tree of the upload scenarios: src holds b/ (with g), e/ (empty)
\* and f.
SrcTree(n) ==
    WithFile(WithFile(Mkdir(Mkdir(LocalRoot, SrcDir \o <<"b">>), SrcDir \o <<"e">>),
                      SrcFile, n),
             SrcDir \o <<"b", "g">>, 1)

\* ------------------------------------------------------------------- Init
InitUploadFile ==
    /\ op = "upload_file" /\ call = op /\ args_local = "none"
    /\ rpath \in {AbsPath(RemoteFile), RelPath(<<"f">>)}
    /\ lpath = SrcFile
    /\ \E n \in Sizes :
        lfs \in {Mkdir(LocalRoot, SrcDir),
                 Mkdir(LocalRoot, SrcFile),
                 WithFile(Mkdir(LocalRoot, SrcDir), SrcFile, n)}
    /\ \E files \in {NoFiles} \cup {OneFile(RemoteFile, n) : n \in Sizes},
          noMkd \in {{}, {RemoteDir}},
          sizeCmd \in {"ok", "err", "none"} :
        srv \in {Server({RemoteDir}, files, {}, noMkd, {}, sizeCmd),
                 Server({}, NoFiles, {}, noMkd, {}, sizeCmd)}

\* The local sides of a single-file download to `out`.
DownloadLocals ==
    {LocalRoot, Mkdir(LocalRoot, OutPath), Mkdir(LocalRoot, OutPath \o <<"f">>)}
    \cup {WithFile(LocalRoot, OutPath, n) : n \in Sizes}
    \cup {WithFile(Mkdir(LocalRoot, OutPath), OutPath \o <<"f">>, n) : n \in Sizes}

InitDownloadFile ==
    /\ op = "download_file" /\ call = op /\ args_local = "none"
    /\ rpath = AbsPath(RemoteFile)
    /\ lpath = OutPath
    /\ lfs \in DownloadLocals
    /\ \E files \in {NoFiles} \cup {OneFile(RemoteFile, n) : n \in Sizes},
          sizeCmd \in {"ok", "err", "none"} :
        srv = Server({RemoteDir}, files, {}, {}, {}, sizeCmd)

InitUploadDirectory ==
    /\ op = "upload_directory" /\ call = op /\ args_local = "none"
    /\ rpath \in {AbsPath(RemoteDir), RelPath(RemoteDir)}
    /\ lpath = SrcDir
    /\ lfs \in {SrcTree(n) : n \in Sizes} \cup {Mkdir(LocalRoot, SrcDir), LocalRoot}
    /\ \E noMkd \in {{}, {RemoteDir}, {RemoteDir \o <<"b">>}, {RemoteDir \o <<"e">>}} :
        srv \in {Server({}, NoFiles, {}, noMkd, {}, "ok"),
                 Server({RemoteDir}, OneFile(RemoteFile, 1), {}, noMkd, {}, "ok")}

\* The local sides of a directory download to `out`.
DownloadDirLocals ==
    {LocalRoot,
     WithFile(LocalRoot, OutPath, 0),
     WithFile(Mkdir(LocalRoot, OutPath), OutPath \o <<"e">>, 0),
     WithFile(Mkdir(LocalRoot, OutPath), OutPath \o <<"f">>, 0)}

InitDownloadDirectory ==
    /\ op = "download_directory" /\ call = op /\ args_local = "none"
    /\ rpath \in {AbsPath(RemoteDir), RelPath(RemoteDir)}
    /\ lpath = OutPath
    /\ lfs \in DownloadDirLocals
    /\ \E deny \in {{}, {RemoteDir}, {RemoteDir \o <<"b">>}}, how \in {"cwd", "list"} :
        srv \in {Server(TreeDirs, TreeFiles,
                        IF how = "cwd" THEN deny ELSE {}, {},
                        IF how = "list" THEN deny ELSE {}, "ok"),
                 Looping(Server(TreeDirs, TreeFiles, {}, {}, {}, "ok"),
                         {RemoteDir \o <<"e">>}),
                 Server({}, NoFiles, {}, {}, {}, "ok")}

\* main() with --get <remote path>: the path names a file, a directory or
\* nothing on the server.
\* ensure_remote_directory(remote_path) called on its own: d/b, written with
\* or without the leading '/', or the root; d or d/b may exist, a file may
\* have the name d, and the server may refuse to create or to enter them.
InitEnsure ==
    /\ op = "ensure_remote_directory" /\ call = op /\ args_local = "none"
    /\ rpath \in {AbsPath(RemoteDir \o <<"b">>), RelPath(RemoteDir \o <<"b">>),
                  AbsPath(Root)}
    /\ lpath = Root
    /\ lfs = LocalRoot
    /\ \E dirs \in {{}, {RemoteDir}, {RemoteDir, RemoteDir \o <<"b">>}},
          noCwd \in {{}, {RemoteDir \o <<"b">>}},
          noMkd \in {{}, {RemoteDir}, {RemoteDir \o <<"b">>}} :
        srv \in {Server(dirs, NoFiles, noCwd, noMkd, {}, "ok"),
                 Server({}, OneFile(RemoteDir, 1), noCwd, noMkd, {}, "ok")}

InitMainGet ==
    /\ op = "main_get" /\ call = "none"
    /\ args_local \in {"none", "plain", "slash"}
    /\ rpath \in {AbsPath(RemoteFile), AbsPath(RemoteDir)}
    /\ lpath = OutPath
    /\ lfs \in {LocalRoot, WithFile(LocalRoot, OutPath, 1)}
    /\ \E sizeCmd \in {"ok", "err", "none"} :
        srv \in {Server(TreeDirs, TreeFiles, {}, {}, {}, sizeCmd),
                 Server({}, NoFiles, {}, {}, {}, sizeCmd)}

\* The state every run starts in, whatever it does.
Fresh ==
    /\ ftp = IF op = "main_get" THEN "none" ELSE "open"
    /\ connected = (op # "main_get")
    /\ pc = "start"
    /\ res = NoTransfer(FALSE)
    /\ ret = "none"
    /\ before = Snapshot(srv, lfs, "first")
    /\ success_count = 0
    /\ total_count = 0
    /\ todo = <<>>
    /\ stack = <<>>
    /\ tried = <<>>
    /\ hist = NoHist
    /\ exit = "none"

Init ==
    /\ \/ InitUploadFile
       \/ InitDownloadFile
       \/ InitUploadDirectory
       \/ InitDownloadDirectory
       \/ InitEnsure
       \/ InitMainGet
    /\ Fresh

\* ---------------------------------------------------------------- actions
\* A method returns `value`.
Return(value) == ret' = Bool(value) /\ pc' = "done"

\* One call of upload_file(lpath, rpath) in an environment drawn from envs.
UploadFileStep(envs) ==
    /\ call = "upload_file" /\ pc = "start"
    /\ \E env \in envs :
        LET u == upload_file(srv, lfs, lpath, rpath, env) IN
        /\ srv' = u.srv
        /\ lfs' = u.lfs
        /\ res' = u.r
        /\ ret' = IF u.r.returned THEN Bool(u.r.ret) ELSE "none"
        /\ pc' = IF u.r.returned THEN "done" ELSE "killed"
    /\ UNCHANGED <<ftp, connected, op, args_local, call, rpath, lpath, before, hist, exit>>
    /\ UNCHANGED walkVars

UploadFileCall == UploadFileStep(TransferEnv)

\* One call of download_file(rpath, lpath) in an environment drawn from envs.
DownloadFileStep(envs) ==
    /\ call = "download_file" /\ pc = "start"
    /\ \E env \in envs :
        LET d == download_file(srv, lfs, rpath, lpath, env) IN
        /\ srv' = d.srv
        /\ lfs' = d.lfs
        /\ res' = d.r
        /\ ret' = IF d.r.returned THEN Bool(d.r.ret) ELSE "none"
        /\ pc' = IF d.r.returned THEN "done" ELSE "killed"
    /\ UNCHANGED <<ftp, connected, op, args_local, call, rpath, lpath, before, hist, exit>>
    /\ UNCHANGED walkVars

DownloadFileCall == DownloadFileStep(TransferEnv)

\* The next invocation of the same single-file transfer: a new process and a
\* new connection (working directory at the root), the server's and the local
\* files as the previous invocation left them.
Again ==
    /\ pc \in {"done", "killed"}
    /\ op \in {"upload_file", "download_file"}
    /\ pc' = "start"
    /\ srv' = [srv EXCEPT !.cwd = Root, !.log = <<>>]
    /\ ret' = "none"
    /\ before' = Snapshot(srv', lfs,
                          IF res.xfer /\ ~res.finished THEN "interrupted" ELSE "ended")
    /\ UNCHANGED <<ftp, connected, op, args_local, call, rpath, lpath, lfs, res, hist, exit>>
    /\ UNCHANGED walkVars

\* One call of ensure_remote_directory(rpath).
EnsureCall ==
    /\ call = "ensure_remote_directory" /\ pc = "start"
    /\ LET e == ensure_remote_directory(srv, rpath) IN
        /\ srv' = e.srv
        /\ Return(e.ok)
    /\ UNCHANGED <<ftp, connected, op, args_local, call, rpath, lpath, lfs, res, before, hist, exit>>
    /\ UNCHANGED walkVars

\* The caller navigates (the working directory becomes any directory the
\* user may enter) and calls ensure_remote_directory with the same path again,
\* as upload_directory does at lines 296 and 311 and upload_file at line 140.
EnsureAgain ==
    /\ op = "ensure_remote_directory" /\ pc = "done"
    /\ pc' = "start"
    /\ \E d \in srv.dirs \ srv.noCwd : srv' = [srv EXCEPT !.cwd = d, !.log = <<>>]
    /\ ret' = "none"
    /\ before' = Snapshot(srv', lfs, IF ret = "true" THEN "succeeded" ELSE "failed")
    /\ UNCHANGED <<ftp, connected, op, args_local, call, rpath, lpath, lfs, res, hist, exit>>
    /\ UNCHANGED walkVars

\* upload_directory, lines 290-302: the checks, the ensure of remote_dir, and
\* the start of os.walk.
UploadDirBegin ==
    /\ call = "upload_directory" /\ pc = "start"
    /\ LET ens == ensure_remote_directory(srv, rpath) IN
        IF ~IsDir(lfs, lpath)
        THEN Return(FALSE) /\ UNCHANGED <<srv, todo, hist>>
        ELSE IF ~ens.ok
        THEN Return(FALSE) /\ srv' = ens.srv /\ UNCHANGED <<todo, hist>>
        ELSE /\ srv' = ens.srv
             /\ todo' = Walk(lfs, lpath)
             /\ hist' = [hist EXCEPT !.walked = TRUE]
             /\ pc' = "walk"
             /\ UNCHANGED ret
    /\ UNCHANGED <<ftp, connected, op, args_local, call, rpath, lpath, lfs, res, before, exit>>
    /\ UNCHANGED <<success_count, total_count, stack, tried>>

\* upload_directory, lines 304-311: os.walk yields a directory; its remote
\* counterpart is ensured and the result is not looked at.
UploadDirEnter ==
    /\ call = "upload_directory" /\ pc = "walk"
    /\ todo # <<>> /\ Head(todo).kind = "dir"
    /\ srv' = ensure_remote_directory(srv, RemoteOf(rpath, lpath, Head(todo).path)).srv
    /\ todo' = Tail(todo)
    /\ UNCHANGED <<ftp, connected, op, args_local, call, rpath, lpath, lfs, pc, res, ret, before, hist, exit>>
    /\ UNCHANGED <<success_count, total_count, stack, tried>>

\* upload_directory, lines 313-321: one file of the directory.
UploadDirFile ==
    /\ call = "upload_directory" /\ pc = "walk"
    /\ todo # <<>> /\ Head(todo).kind = "file"
    /\ \E env \in WalkEnv(LocalSize(lfs, Head(todo).path)) :
        LET u == upload_file(srv, lfs, Head(todo).path,
                             RemoteOf(rpath, lpath, Head(todo).path), env) IN
        /\ srv' = u.srv
        /\ lfs' = u.lfs
        /\ res' = u.r
        /\ total_count' = total_count + 1
        /\ success_count' = Counted(success_count, u.r.ret)
        /\ tried' = Append(tried, [path |-> Head(todo).path, ok |-> u.r.ret])
    /\ todo' = Tail(todo)
    /\ UNCHANGED <<ftp, connected, op, args_local, call, rpath, lpath, pc, ret, before, hist, exit, stack>>

\* upload_directory, lines 323-324.
UploadDirEnd ==
    /\ call = "upload_directory" /\ pc = "walk" /\ todo = <<>>
    /\ Return(Tally(success_count, total_count))
    /\ UNCHANGED <<ftp, connected, op, args_local, call, rpath, lpath, srv, lfs, res, before, hist, exit>>
    /\ UNCHANGED walkVars

\* The absence reported as a failure.
AbsentRemoteDir_Fails == FALSE

\* What download_directory returns when the initial cwd fails (line 347).
AbsentRemoteDir == TRUE

\* download_directory, lines 342-352 and 400: the initial cwd and the first
\* call of download_recursive.
DownloadDirBegin ==
    /\ call = "download_directory" /\ pc = "start"
    /\ srv' = Cwd(srv, rpath)
    /\ IF ~CwdOk(srv, rpath)
       THEN Return(AbsentRemoteDir) /\ UNCHANGED <<stack, hist>>
       ELSE /\ stack' = <<Frame(rpath, lpath, 0)>>
            /\ hist' = [hist EXCEPT !.walked = TRUE]
            /\ pc' = "walk"
            /\ UNCHANGED ret
    /\ UNCHANGED <<ftp, connected, op, args_local, call, rpath, lpath, lfs, res, before, exit>>
    /\ UNCHANGED <<success_count, total_count, todo, tried>>

\* download_recursive, lines 357-367: the depth test, the local mkdir (outside
\* the try), then cwd and LIST inside the try. An exception of mkdir leaves
\* the call; the caller's except clause (line 395) catches it and ends the
\* caller's loop, and at depth 0 the except clause of download_directory
\* (line 405) catches it.
Recurse ==
    /\ call = "download_directory" /\ pc = "walk"
    /\ stack # <<>> /\ ~stack[Len(stack)].entered
    /\ LET f == stack[Len(stack)]
           s1 == Cwd(srv, f.rdir)
           s2 == IF CwdOk(srv, f.rdir) THEN Logged(s1, "LIST", RelPath(<<>>)) ELSE s1
       IN
       IF DepthCut(f.depth, MaxDepth)
       THEN /\ stack' = Pop(stack)
            /\ hist' = [hist EXCEPT !.cut = @ \cup {f.rdir}]
            /\ UNCHANGED <<srv, lfs, pc, ret>>
       ELSE IF ~MkdirOk(lfs, f.ldir)
       THEN /\ hist' = [hist EXCEPT !.mkdirFailed = @ \cup {f.ldir}]
            /\ UNCHANGED <<srv, lfs>>
            /\ IF Len(stack) = 1
               THEN Return(FALSE) /\ stack' = <<>>
               ELSE stack' = Pop(Pop(stack)) /\ UNCHANGED <<pc, ret>>
       ELSE /\ lfs' = Mkdir(lfs, f.ldir)
            /\ srv' = s2
            /\ UNCHANGED <<pc, ret>>
            /\ IF ~CwdOk(srv, f.rdir) \/ ~ListOk(s1)
               THEN /\ stack' = Pop(stack)
                    /\ hist' = [hist EXCEPT !.listFailed = @ \cup {f.rdir}]
               ELSE /\ stack' = [stack EXCEPT ![Len(stack)].entered = TRUE,
                                              ![Len(stack)].items = ListLines(s1)]
                    /\ hist' = [hist EXCEPT !.listed = @ \cup {s1.cwd}]
    /\ UNCHANGED <<ftp, connected, op, args_local, call, rpath, lpath, res, before, exit>>
    /\ UNCHANGED <<success_count, total_count, todo, tried>>

\* download_recursive, lines 371-393: one line of the listing.
ListItem ==
    /\ call = "download_directory" /\ pc = "walk"
    /\ stack # <<>> /\ stack[Len(stack)].entered /\ stack[Len(stack)].items # <<>>
    /\ \E e \in {ParseLine(parts) : parts \in {Split(Head(stack[Len(stack)].items))}} :
       LET f == stack[Len(stack)]
           remote_path == [f.rdir EXCEPT !.segs = @ \o <<e.filename>>]
           local_path == f.ldir \o <<e.filename>>
       IN
       IF e.skip
       THEN /\ stack' = Advance(stack)
            /\ UNCHANGED <<srv, lfs, res, success_count, total_count, tried>>
       ELSE IF e.is_dir
       THEN /\ stack' = Append(Advance(stack), Frame(remote_path, local_path, f.depth + 1))
            /\ UNCHANGED <<srv, lfs, res, success_count, total_count, tried>>
       ELSE /\ stack' = Advance(stack)
            /\ \E env \in WalkEnv(RemoteSize(srv, Resolve(srv, remote_path))) :
                LET d == download_file(srv, lfs, remote_path, local_path, env) IN
                /\ srv' = d.srv
                /\ lfs' = d.lfs
                /\ res' = d.r
                /\ total_count' = total_count + 1
                /\ success_count' = Counted(success_count, d.r.ret)
                /\ tried' = Append(tried, [path |-> Resolve(srv, remote_path),
                                           ok |-> d.r.ret])
    /\ UNCHANGED <<ftp, connected, op, args_local, call, rpath, lpath, pc, ret, before, hist, exit, todo>>

\* download_recursive returns at the end of its loop.
RecurseReturn ==
    /\ call = "download_directory" /\ pc = "walk"
    /\ stack # <<>> /\ stack[Len(stack)].entered /\ stack[Len(stack)].items = <<>>
    /\ stack' = Pop(stack)
    /\ UNCHANGED <<ftp, connected, op, args_local, call, rpath, lpath, srv, lfs, pc, res, ret, before, hist, exit>>
    /\ UNCHANGED <<success_count, total_count, todo, tried>>

\* download_directory, lines 402-403.
DownloadDirEnd ==
    /\ call = "download_directory" /\ pc = "walk" /\ stack = <<>>
    /\ Return(Tally(success_count, total_count))
    /\ UNCHANGED <<ftp, connected, op, args_local, call, rpath, lpath, srv, lfs, res, before, hist, exit>>
    /\ UNCHANGED walkVars

\* FTPClient.connect (lines 46-63). `how` is what the server does: "refused"
\* (ftplib.FTP(host) raises, self.ftp stays None), "login" (the connection
\* opens and login raises) or "ok".
connect(how) ==
    [ftp |-> IF how = "refused" THEN "none" ELSE "open",
     connected |-> (how = "ok"),
     ok |-> (how = "ok")]

\* FTPClient.disconnect (lines 65-74) on connection state f, c: quit, and
\* close when quit raises, if self.ftp and self.connected.
disconnect(f, c, quitOk) ==
    IF f # "none" /\ c
    THEN [ftp |-> IF quitOk THEN "quit" ELSE "closed", connected |-> FALSE]
    ELSE [ftp |-> f, connected |-> c]

\* main(), lines 609-613: the client connects; when connect returns False
\* the process exits with code 1 through the finally clause (line 720).
MainConnect ==
    /\ op = "main_get" /\ pc = "start" /\ call = "none" /\ ftp = "none"
    /\ \E how \in {"refused", "login", "ok"}, quitOk \in BOOLEAN :
        LET c == connect(how)
            d == disconnect(c.ftp, c.connected, quitOk)
        IN IF c.ok
           THEN ftp' = c.ftp /\ connected' = c.connected /\ UNCHANGED <<pc, exit>>
           ELSE ftp' = d.ftp /\ connected' = d.connected /\ exit' = "1" /\ pc' = "exited"
    /\ UNCHANGED <<op, args_local, call, rpath, lpath, srv, lfs, res, ret, before, hist>>
    /\ UNCHANGED walkVars

\* main(), lines 672-688: the probe of the remote path. cwd succeeds: a
\* directory, and the working directory goes back to '/'; else size succeeds
\* (no exception): a file; else the path does not exist and success is False.
MainProbe ==
    /\ op = "main_get" /\ call = "none" /\ pc = "start" /\ connected
    /\ LET s1 == Cwd(srv, rpath)
           s2 == Cwd(s1, AbsPath(Root))
           asDir == CwdOk(srv, rpath) /\ CwdOk(s1, AbsPath(Root))
           s3 == Logged(IF CwdOk(srv, rpath) THEN s2 ELSE s1, "SIZE", rpath)
           rep == SizeReply(IF CwdOk(srv, rpath) THEN s2 ELSE s1, rpath)
       IN
       IF asDir
       THEN srv' = s2 /\ hist' = [hist EXCEPT !.probe = "dir"] /\ UNCHANGED ret
       ELSE IF rep.kind # "err"
       THEN srv' = s3 /\ hist' = [hist EXCEPT !.probe = "file"] /\ UNCHANGED ret
       ELSE srv' = s3 /\ hist' = [hist EXCEPT !.probe = "missing"] /\ ret' = "false"
    /\ pc' = "probed"
    /\ UNCHANGED <<ftp, connected, op, args_local, call, rpath, lpath, lfs, res, before, exit>>
    /\ UNCHANGED walkVars

\* The truth value of is_file at line 690: True only for a file (False for a
\* directory, None for a path that does not exist).
IsFileBranch(probe) == probe = "file"

\* main(), lines 690-715: the local target, and the method that is called. A
\* --local ending in '/' is created first (os.makedirs); its exception is not
\* caught and ends the process with exit code 1 through the finally clause.
MainDispatch ==
    /\ op = "main_get" /\ pc = "probed"
    /\ LET base == <<Basename(rpath.segs)>>
           target == IF args_local = "none" THEN base
                     ELSE IF args_local = "plain" THEN lpath
                     ELSE lpath \o base
       IN
       IF args_local = "slash" /\ ~MkdirOk(lfs, lpath)
       THEN /\ exit' = "1" /\ pc' = "exited"
            /\ \E quitOk \in BOOLEAN :
                LET d == disconnect(ftp, connected, quitOk) IN
                ftp' = d.ftp /\ connected' = d.connected
            /\ UNCHANGED <<call, lpath, lfs, before, ret>>
       ELSE /\ lfs' = IF args_local = "slash" THEN Mkdir(lfs, lpath) ELSE lfs
            /\ lpath' = target
            /\ call' = IF IsFileBranch(hist.probe) THEN "download_file"
                       ELSE "download_directory"
            /\ before' = Snapshot([srv EXCEPT !.log = <<>>], lfs', "first")
            /\ ret' = "none"
            /\ pc' = "start"
            /\ UNCHANGED <<exit, ftp, connected>>
    /\ srv' = [srv EXCEPT !.log = <<>>]
    /\ UNCHANGED <<op, args_local, rpath, res, hist>>
    /\ UNCHANGED walkVars

\* main(), line 717: sys.exit(0 if success else 1).
ExitCode(success) == IF success THEN "0" ELSE "1"

\* main(), lines 717-720: the exit code, then the finally clause disconnects.
MainExit ==
    /\ op = "main_get" /\ pc = "done"
    /\ exit' = ExitCode(ret = "true")
    /\ pc' = "exited"
    /\ \E quitOk \in BOOLEAN :
        LET d == disconnect(ftp, connected, quitOk) IN
        ftp' = d.ftp /\ connected' = d.connected
    /\ UNCHANGED <<op, args_local, call, rpath, lpath, srv, lfs, res, ret, before, hist>>
    /\ UNCHANGED walkVars

Next ==
    \/ MainConnect
    \/ MainProbe
    \/ MainDispatch
    \/ MainExit
    \/ UploadFileCall
    \/ DownloadFileCall
    \/ Again
    \/ EnsureCall
    \/ EnsureAgain
    \/ UploadDirBegin
    \/ UploadDirEnter
    \/ UploadDirFile
    \/ UploadDirEnd
    \/ DownloadDirBegin
    \/ Recurse
    \/ ListItem
    \/ RecurseReturn
    \/ DownloadDirEnd

Spec == Init /\ [][Next]_vars

\* -------------------------------------------- repeated, interrupted runs
\* The runs of a single-file transfer that is invoked again and again while
\* the source file keeps its size, the server answers SIZE, the directories
\* can be used, and every attempt that is interrupted has moved at least one
\* unit.
ResumeEnvs(size) ==
    {e \in TransferEnv : e.now = size /\ (e.end = "ok" \/ e.cut >= 1)}

InitResume ==
    /\ Init
    /\ op \in {"upload_file", "download_file"}
    /\ srv.sizeCmd = "ok" /\ srv.noMkd = {}
    /\ op = "upload_file" => IsFile(lfs, lpath) /\ lfs[lpath].size >= 1
    /\ op = "download_file" =>
            /\ RemoteFile \in DOMAIN srv.files /\ srv.files[RemoteFile] >= 1
            /\ ~IsDir(lfs, OutPath \o <<"f">>)

UploadFileResume == UploadFileStep(ResumeEnvs(LocalSize(lfs, lpath)))

DownloadFileResume ==
    DownloadFileStep(ResumeEnvs(RemoteSize(srv, Resolve(srv, rpath))))

NextResume ==
    \/ UploadFileResume
    \/ DownloadFileResume
    \/ Again

\* Every invocation runs to its end or to its interruption, and after it the
\* transfer is invoked again.
SpecResume == InitResume /\ [][NextResume]_vars /\ WF_vars(NextResume)

\* -------------------------------------------- a directory download alone
\* download_directory run to its end: each step of the walk is taken as long
\* as one is pending.
InitWalk == Init /\ op = "download_directory"

NextWalk ==
    \/ DownloadDirBegin
    \/ Recurse
    \/ ListItem
    \/ RecurseReturn
    \/ DownloadDirEnd

SpecWalk == InitWalk /\ [][NextWalk]_vars /\ WF_vars(NextWalk)

\* ------------------------------------------------ listings in any format
\* Lines a server may send in a LIST reply: empty, short, in the long format
\* (with runs of separators, a leading tab, a name of several words, a link),
\* and lines of fewer than nine tokens.
ListingLines ==
    {"", "total 0", "-rw-r--r-- f",
     "d x f", "Drwx 1 f",
     "-rw-r--r-- 1 ftp ftp 1 Jan 1 00:00 f",
     "drwxr-xr-x 1 ftp ftp 0 Jan 1 00:00 b",
     "drwxr-xr-x 1 ftp ftp 0 Jan 1 00:00 .",
     "drwxr-xr-x 1 ftp ftp 0 Jan 1 00:00 ..",
     "drwxr-xr-x 2 ftp ftp 0 Jan 1 ..",
     "drwxr-xr-x  1 ftp ftp 0 Jan  1 00:00 my  dir",
     "-rw-r--r-- 1 ftp ftp 1 Jan 1 00:00 . f",
     "\tdrwx 1 2 b ",
     "lrwxrwxrwx 1 ftp ftp 1 Jan 1 00:00 g -> f"}

\* download_directory('/d', 'out') from a server that holds d/b and d/f and
\* answers LIST in d with two lines of ListingLines.
InitParse ==
    /\ op = "download_directory" /\ call = op /\ args_local = "none"
    /\ rpath = AbsPath(RemoteDir)
    /\ lpath = OutPath
    /\ lfs = LocalRoot
    /\ \E l1 \in ListingLines, l2 \in ListingLines :
        srv = Listing(Server({RemoteDir, RemoteDir \o <<"b">>},
                             OneFile(RemoteFile, 1), {}, {}, {}, "ok"),
                      RemoteDir, <<l1, l2>>)
    /\ Fresh

SpecParse == InitParse /\ [][NextWalk]_vars

\* ----------------------------------------------------------------- claims
\* What the invocation started from.
Called == pc \in {"done", "killed"}

SrcSize0 == LocalSize(before.lfs, lpath)

\* The size the server reports for rpath at the start: 0 when the file is
\* absent or the query fails.
Queried0 ==
    IF before.srv.sizeCmd = "ok" THEN RemoteSize(before.srv, Resolve(before.srv, rpath))
    ELSE 0

\* C1: whenever upload_file issues its store request, the request's offset and
\* the position the local file is read from are remoteSize if
\* 0 < remoteSize < fileSize and 0 otherwise; from offset 0 a store that ends
\* normally has sent the whole file.
C1_UploadOffset ==
    (call = "upload_file" /\ Called /\ res.xfer) =>
        /\ (0 < Queried0 /\ Queried0 < SrcSize0) =>
                res.rest = Queried0 /\ res.seek = Queried0
        /\ ~(0 < Queried0 /\ Queried0 < SrcSize0) =>
                /\ res.rest = 0 /\ res.seek = 0
                /\ res.finished => res.moved = LocalSize(lfs, lpath)

\* A resumed upload (offset > 0) and a fresh upload over a larger or equal
\* remote file have both been issued.
C1_Witness ==
    /\ call = "upload_file" /\ Called /\ res.xfer /\ res.finished
    /\ res.rest > 0 /\ res.rest = Queried0 /\ res.moved > 0

\* The local file download_file decides about.
Target0 == DownloadTarget(before.lfs, lpath, rpath)

RemoteSize0 == RemoteSize(before.srv, Resolve(before.srv, rpath))

SizeKnown0 ==
    before.srv.sizeCmd = "ok" /\ Resolve(before.srv, rpath) \in DOMAIN before.srv.files

\* C2: download_file, for the local file at lpath or, when lpath is an
\* existing directory, at lpath/basename(rpath): equal size -> returns True
\* with no RETR and nothing written; smaller -> append mode and RETR from
\* localSize; larger or absent -> the file is truncated or created and RETR
\* starts at 0.
C2_DownloadDecision ==
    (call = "download_file" /\ Called /\ SizeKnown0) =>
        /\ IsDir(before.lfs, lpath) => Target0 = lpath \o <<Basename(rpath.segs)>>
        /\ (IsFile(before.lfs, Target0) /\ before.lfs[Target0].size = RemoteSize0) =>
                /\ ret = "true" /\ ~res.xfer /\ ~Issued(srv, "RETR")
                /\ lfs = before.lfs
        /\ (IsFile(before.lfs, Target0) /\ before.lfs[Target0].size < RemoteSize0) =>
                /\ res.xfer /\ res.mode = "ab" /\ res.target = Target0
                /\ res.rest = before.lfs[Target0].size
                /\ LocalSize(lfs, Target0) = before.lfs[Target0].size + res.moved
        /\ ((IsFile(before.lfs, Target0) /\ before.lfs[Target0].size > RemoteSize0)
             \/ Target0 \notin DOMAIN before.lfs) =>
                /\ res.xfer /\ res.mode = "wb" /\ res.target = Target0
                /\ res.rest = 0
                /\ IsFile(lfs, Target0) /\ lfs[Target0].size = res.moved

\* A download into an existing directory resumed the partial file inside it.
C2_Witness ==
    /\ call = "download_file" /\ Called /\ SizeKnown0
    /\ IsDir(before.lfs, lpath) /\ IsFile(before.lfs, Target0)
    /\ res.xfer /\ res.mode = "ab" /\ res.rest > 0 /\ res.finished

\* C3: upload_file returns True only when the starting offset plus the units
\* streamed equals file_size.
C3_UploadComplete ==
    (call = "upload_file" /\ pc = "done" /\ ret = "true") =>
        res.rest + res.moved = res.size

\* C5: when main()'s probe of the remote path fails both ways, the process
\* exits with code 1.
C5_MissingPathExits1 ==
    (op = "main_get" /\ pc = "exited" /\ hist.probe = "missing") => exit = "1"

\* C4: download_file returns True after a retrieve only when the starting
\* offset plus the units received equals remote_size.
C4_DownloadComplete ==
    (call = "download_file" /\ pc = "done" /\ ret = "true" /\ res.xfer) =>
        res.rest + res.moved = res.size

\* The source and the destination of the single-file transfer.
SourceSize(s, l) ==
    IF call = "upload_file" THEN LocalSize(l, lpath)
    ELSE RemoteSize(s, Resolve(s, rpath))

DestSize(s, l) ==
    IF call = "upload_file" THEN RemoteSize(s, Resolve(s, rpath))
    ELSE LocalSize(l, DownloadTarget(l, lpath, rpath))

\* An invocation that follows an interrupted one resumes: it starts its
\* transfer at the size n the destination holds, 0 < n < S.
ResumesAtOffset ==
    (Called /\ before.after = "interrupted"
       /\ 0 < DestSize(before.srv, before.lfs)
       /\ DestSize(before.srv, before.lfs) < SourceSize(before.srv, before.lfs)) =>
        /\ res.xfer
        /\ res.rest = DestSize(before.srv, before.lfs)

\* C6: an invocation after an interruption that left n units, 0 < n < S, at
\* the destination starts at offset n, and when every interrupted attempt
\* moves at least one unit some invocation ends with the destination holding
\* S units.
C6_ResumeCompletes ==
    /\ []ResumesAtOffset
    /\ <>(Called /\ DestSize(srv, lfs) = SourceSize(srv, lfs))

\* An invocation after an interruption resumed above offset 0 and ended with
\* the destination complete.
C6_Witness ==
    /\ pc = "done" /\ before.after = "interrupted" /\ res.xfer /\ res.rest > 0
    /\ res.finished /\ ret = "true"
    /\ DestSize(srv, lfs) = SourceSize(srv, lfs)

\* The regular files of the local tree under lpath, and the tally of the
\* attempts made.
LocalFiles ==
    {q \in DOMAIN lfs : IsFile(lfs, q) /\ Len(q) > Len(lpath)
                         /\ SubSeq(q, 1, Len(lpath)) = lpath}

Attempts(q) == Cardinality({i \in 1..Len(tried) : tried[i].path = q})

Failures == Cardinality({i \in 1..Len(tried) : ~tried[i].ok})

TallyOf(n, k) ==
    /\ total_count = n
    /\ success_count = n - k
    /\ (ret = "true") <=> (k = 0)

\* C7 as stated: whenever upload_directory of a local tree with N files, K of
\* whose uploads fail, has finished, total_count = N, success_count = N - K
\* and it returned true iff K = 0.
C7_AsStated ==
    (call = "upload_directory" /\ pc = "done" /\ IsDir(lfs, lpath)) =>
        TallyOf(Cardinality(LocalFiles), Failures)

\* C7, amended: the same, for calls in which the ensure of remote_dir
\* succeeded; when it fails the call returns false and has attempted no file.
C7_UploadTally ==
    /\ (call = "upload_directory" /\ pc = "done" /\ hist.walked) =>
            TallyOf(Cardinality(LocalFiles), Failures)
    /\ (call = "upload_directory" /\ pc = "done" /\ ~hist.walked) =>
            ret = "false" /\ total_count = 0 /\ tried = <<>>

\* A walk of two files of which one failed, returning false.
C7_Witness ==
    /\ call = "upload_directory" /\ pc = "done" /\ hist.walked
    /\ Cardinality(LocalFiles) = 2 /\ Failures = 1 /\ ret = "false"

\* The files a directory download has to attempt: those of the remote
\* directories whose listing succeeded.
ListedFiles == {q \in DOMAIN srv.files : Parent(q) \in hist.listed}

\* C8: when a directory operation that began its walk has finished, every
\* file of the tree (for a download: of the branches listed) was attempted
\* exactly once.
C8_EveryFileAttemptedOnce ==
    /\ (call = "upload_directory" /\ pc = "done" /\ hist.walked) =>
            \A q \in LocalFiles : Attempts(q) = 1
    /\ (call = "download_directory" /\ pc = "done" /\ hist.walked) =>
            \A q \in ListedFiles : Attempts(q) = 1

\* C9: if the cwd or the listing of a branch failed, download_directory
\* returns false.
C9_ListingFailureReported ==
    (call = "download_directory" /\ pc = "done" /\ hist.listFailed # {}) =>
        ret = "false"

\* The entries of a listing that follow the subdirectory `name`: the
\* subdirectories after it and all the files.
DirsAfter(d, name) ==
    {d \o <<NameOrder[j]>> : j \in {j \in 1..Len(NameOrder) :
        /\ d \o <<NameOrder[j]>> \in srv.dirs
        /\ \E i \in 1..(j - 1) : NameOrder[i] = name}}

FilesOf(d) == {q \in DOMAIN srv.files : Parent(q) = d}

\* A subdirectory entry was processed: download_recursive was called for it.
DirProcessed(q, ldir) ==
    \/ q \in hist.listed
    \/ AbsPath(q) \in hist.listFailed \cup hist.cut
    \/ ldir \in hist.mkdirFailed

\* C10: when download_directory has finished, for every subdirectory whose
\* cwd or listing failed, every entry of its parent's listing that follows
\* it was processed.
C10_SiblingsProcessed ==
    (call = "download_directory" /\ pc = "done" /\ rpath.abs) =>
        \A x \in hist.listFailed :
            x.segs # rpath.segs =>
                /\ \A q \in FilesOf(Parent(x.segs)) : Attempts(q) = 1
                /\ \A q \in DirsAfter(Parent(x.segs), Basename(x.segs)) :
                        DirProcessed(q, lpath \o SubSeq(q, Len(rpath.segs) + 1, Len(q)))

\* How many levels below local_dir a local path lies, and below remote_dir a
\* remote directory (as resolved by the server).
LocalDepth(q) == Len(q) - Len(lpath)

RemoteDepth(q) == Len(q) - Len(Resolve(before.srv, rpath))

\* Nothing deeper than max_depth levels was processed: no call of
\* download_recursive deeper than that got past the depth test, no directory
\* deeper than that was listed or created locally, and no file was requested
\* or written below such a directory.
DepthRespected ==
    /\ \A i \in 1..Len(stack) : stack[i].entered => stack[i].depth <= MaxDepth
    /\ \A q \in hist.listed : RemoteDepth(q) <= MaxDepth
    /\ \A i \in 1..Len(tried) : RemoteDepth(Parent(tried[i].path)) <= MaxDepth
    /\ \A q \in DOMAIN lfs \ DOMAIN before.lfs :
            LocalDepth(IF IsDir(lfs, q) THEN q ELSE Parent(q)) <= MaxDepth

\* A walk in which nothing but the depth limit cut a branch returns true.
CutIsNoFailure ==
    (pc = "done" /\ hist.cut # {} /\ Failures = 0 /\ hist.mkdirFailed = {}) =>
        ret = "true"

\* C11: download_directory never lists, creates locally or downloads from a
\* directory more than max_depth levels below remote_dir, also when the
\* remote tree is deeper than max_depth or lists itself; the walk ends, and a
\* walk in which only the depth limit cut branches returns true.
C11_DepthBounded ==
    /\ []DepthRespected
    /\ <>(pc = "done")
    /\ []CutIsNoFailure

\* The walk of a tree that lists itself ended with branches cut, a local
\* mirror max_depth levels deep, files downloaded, and returned true.
C11_Witness ==
    /\ call = "download_directory" /\ pc = "done" /\ ret = "true"
    /\ srv.loop # {} /\ hist.cut # {} /\ total_count > 0
    /\ \E q \in DOMAIN lfs : IsDir(lfs, q) /\ LocalDepth(q) = MaxDepth
    /\ \E x \in hist.cut : Len(x.segs) - Len(rpath.segs) = MaxDepth + 1

\* The files of the remote tree under remote_dir that lie within the depth
\* bound, and the local path that mirrors a remote one.
TreeRoot == Resolve(before.srv, rpath)

WithinBound ==
    {q \in DOMAIN before.srv.files :
        /\ Len(q) > Len(TreeRoot) /\ SubSeq(q, 1, Len(TreeRoot)) = TreeRoot
        /\ RemoteDepth(Parent(q)) <= MaxDepth}

Mirror(q) == lpath \o SubSeq(q, Len(TreeRoot) + 1, Len(q))

\* The server refuses nothing, no download that was made failed and no
\* local directory failed to be created.
AllSucceeds ==
    /\ before.srv.noCwd = {} /\ before.srv.noList = {}
    /\ Failures = 0 /\ hist.mkdirFailed = {}

\* C12: when download_directory has entered remote_dir (given as an absolute
\* or as a relative path) and finished with every listing and download
\* succeeding, each file of the tree within the depth bound is at its
\* mirrored local path with the remote size, and total_count is their number.
C12_TreeDownloaded ==
    (call = "download_directory" /\ pc = "done" /\ hist.walked /\ AllSucceeds) =>
        /\ \A q \in WithinBound :
                IsFile(lfs, Mirror(q)) /\ lfs[Mirror(q)].size = srv.files[q]
        /\ total_count = Cardinality(WithinBound)

\* C13: when the server refuses the initial cwd into remote_dir,
\* download_directory returns true with total_count = 0, having issued no
\* LIST and no RETR and having left the local file system as it was.
C13_AbsentDirIsSuccess ==
    (call = "download_directory" /\ pc = "done" /\ ~CwdOk(before.srv, rpath)) =>
        /\ ret = "true"
        /\ total_count = 0 /\ success_count = 0 /\ tried = <<>>
        /\ ~Issued(srv, "LIST") /\ ~Issued(srv, "RETR") /\ ~Issued(srv, "SIZE")
        /\ lfs = before.lfs

\* download_directory returned after the server refused the initial cwd,
\* both for a directory that does not exist and for one the user may not
\* enter.
C13_Witness ==
    /\ call = "download_directory" /\ pc = "done" /\ ~CwdOk(before.srv, rpath)
    /\ Issued(srv, "CWD") /\ ~hist.walked
    /\ Resolve(before.srv, rpath) \in before.srv.noCwd

\* A call of ensure_remote_directory has returned.
Ensured == call = "ensure_remote_directory" /\ pc = "done"

\* C14: a call of ensure_remote_directory that follows a successful call
\* with the same path, from whatever working directory, returns true, issues
\* no MKD and leaves the set of remote directories as it was.
C14_EnsureIdempotent ==
    (Ensured /\ before.after = "succeeded") =>
        /\ ret = "true"
        /\ ~Issued(srv, "MKD")
        /\ srv.dirs = before.srv.dirs
        /\ srv.files = before.srv.files

\* A second call made from inside the directory the first call created.
C14_Witness ==
    /\ Ensured /\ before.after = "succeeded" /\ ret = "true"
    /\ rpath.segs # <<>> /\ before.srv.cwd = rpath.segs
    /\ Len(srv.log) = 1 + Len(rpath.segs)

\* The prefix of the path with k segments.
Prefix(segs, k) == SubSeq(segs, 1, k)

\* On server s the directory q can be created, and can be entered once it
\* exists.
Creatable(s, q) == q \notin s.dirs /\ q \notin DOMAIN s.files /\ q \notin s.noMkd

Passable(s, q) == q \notin s.noCwd /\ (q \in s.dirs \/ Creatable(s, q))

\* The k-th segment of the path is missing and its creation fails, every
\* segment before it exists or can be created, and can be entered.
CreateFailsAt(s, segs, k) ==
    /\ \A j \in 1..(k - 1) : Passable(s, Prefix(segs, j))
    /\ Prefix(segs, k) \notin s.dirs
    /\ ~Creatable(s, Prefix(segs, k))

\* C17: when the creation of a missing segment of the path fails,
\* ensure_remote_directory returns false, and the segments before it, created
\* by the call or not, are on the server afterwards.
C17_CreateFailureReported ==
    Ensured =>
        \A k \in 1..Len(rpath.segs) :
            CreateFailsAt(before.srv, rpath.segs, k) =>
                /\ ret = "false"
                /\ Prefix(rpath.segs, k) \notin srv.dirs
                /\ \A j \in 1..(k - 1) : Prefix(rpath.segs, j) \in srv.dirs
                /\ before.srv.dirs \subseteq srv.dirs

\* The first segment was created and the creation of the second was refused.
C17_Witness ==
    /\ Ensured /\ ret = "false"
    /\ CreateFailsAt(before.srv, rpath.segs, 2)
    /\ Prefix(rpath.segs, 1) \in srv.dirs \ before.srv.dirs

\* C15: every remote size query (the existence check of upload_file,
\* download_file and main) is issued while the connection's working
\* directory is the root.
C15_ChecksAtRoot ==
    \A i \in 1..Len(srv.log) :
        srv.log[i].cmd = "SIZE" => srv.log[i].cwd = Root

\* C16: when main() has ended after opening a connection, the connection
\* was released: by QUIT, or by a forced close when QUIT failed.
C16_ConnectionReleased ==
    (op = "main_get" /\ pc = "exited" /\ ftp # "none") =>
        ftp \in {"quit", "closed"} /\ ~connected

\* The reply to the size query of the call, and the remote parent
\* directory upload_file ensures.
SizeKind0 == SizeReply(before.srv, rpath).kind

ParentSegs == Parent(rpath.segs)

\* Some segment of the remote parent directory can neither be entered nor
\* be created and entered: the ensure step raises.
EnsureRaises ==
    \E k \in 1..Len(ParentSegs) : ~Passable(before.srv, Prefix(ParentSegs, k))

\* The local file of a download cannot be opened: its name is a directory,
\* or its parent cannot be created.
OpenRaises ==
    \/ IsDir(before.lfs, Target0)
    \/ ~MkdirOk(before.lfs, Parent(Target0))

\* The store or retrieve request was issued and raised.
TransferRaised == res.xfer /\ ~res.finished

\* A call of upload_file on an existing local file, or of download_file,
\* has returned.
UploadReturned ==
    call = "upload_file" /\ pc = "done" /\ IsFile(before.lfs, lpath)

DownloadReturned == call = "download_file" /\ pc = "done"

\* C18 as stated: whenever the size query, the directory ensure, the file
\* open, the store or the retrieve of a single-file transfer raised, the
\* call returned false.
C18_AsStated ==
    /\ UploadReturned =>
            ((SizeKind0 # "val" \/ EnsureRaises \/ TransferRaised) => ret = "false")
    /\ DownloadReturned =>
            ((SizeKind0 # "val" \/ TransferRaised) => ret = "false")

\* C18, amended: the same, except that an error reply to upload_file's size
\* query is not a failure (the remote size is taken as 0). In a directory
\* operation a transfer that raised is counted as a failed attempt, and
\* upload_directory still attempts every file.
C18_ErrorsReturnFalse ==
    /\ UploadReturned =>
            ((SizeKind0 = "none" \/ EnsureRaises \/ TransferRaised) => ret = "false")
    /\ DownloadReturned =>
            /\ (SizeKind0 # "val" \/ TransferRaised) => ret = "false"
            /\ (SizeKind0 = "val" /\ OpenRaises) => ret = "false"
    /\ (call \in {"upload_directory", "download_directory"} /\ TransferRaised) =>
            /\ ~res.ret
            /\ Len(tried) = total_count /\ tried # <<>>
            /\ ~tried[Len(tried)].ok
            /\ success_count < total_count
    /\ (call = "upload_directory" /\ pc = "done" /\ hist.walked) =>
            \A q \in LocalFiles : Attempts(q) = 1

\* upload_directory went on after a store that raised: the failed attempt
\* is followed by another one.
C18_Witness ==
    /\ call = "upload_directory" /\ pc = "done" /\ Len(tried) = 2
    /\ ~tried[1].ok /\ tried[2].ok /\ ret = "false"

\* C19: when upload_file's size query fails (an error reply, or a reply
\* without a size), the remote size is taken as 0 and, unless the ensure
\* step raises, the store is issued from offset 0.
C19_SizeFailureIsZero ==
    (UploadReturned /\ SizeKind0 # "val") =>
        /\ res.other = 0
        /\ ~EnsureRaises => (res.xfer /\ res.rest = 0 /\ Issued(srv, "STOR"))

\* The position of the store request in the request log, 0 when there is none.
StorAt ==
    IF Issued(srv, "STOR")
    THEN CHOOSE i \in 1..Len(srv.log) : srv.log[i].cmd = "STOR"
    ELSE 0

\* Before its store request upload_file ran the ensure step to its end: the
\* change to the root and into every segment of the parent directory were
\* requested, and the store was issued from inside that directory.
StoredAfterEnsure ==
    /\ \E i \in 1..(StorAt - 1) :
            srv.log[i].cmd = "CWD" /\ srv.log[i].path = Root
    /\ \A k \in 1..Len(ParentSegs) :
            \E i \in 1..(StorAt - 1) :
                srv.log[i].cmd = "CWD" /\ srv.log[i].path = Prefix(ParentSegs, k)
    /\ srv.log[StorAt].cwd = ParentSegs

\* A successful ensure_remote_directory(path) leaves the working directory
\* at path resolved from the root, wherever it was before.
EnsureLeavesCwd == (Ensured /\ ret = "true") => srv.cwd = rpath.segs

\* When the ensure step raises, upload_file returns false without a store.
NoStoreWithoutEnsure ==
    (UploadReturned /\ SizeKind0 # "none" /\ EnsureRaises
        /\ (rpath.abs \/ Len(rpath.segs) > 1)) =>
            /\ ret = "false" /\ ~res.xfer /\ ~Issued(srv, "STOR")
            /\ srv.files = before.srv.files

\* C20 as stated: a successful ensure leaves the working directory at the
\* path; every store request of upload_file follows a completed ensure of
\* the remote parent directory; a failed ensure means false and no store.
C20_AsStated ==
    /\ EnsureLeavesCwd
    /\ (call = "upload_file" /\ Called /\ res.xfer) => StoredAfterEnsure
    /\ NoStoreWithoutEnsure

\* C20, amended: the same for a remote_file with a directory part; for a
\* bare file name no ensure step runs and the store is issued in the
\* working directory the connection is in.
C20_StoreAfterEnsure ==
    /\ EnsureLeavesCwd
    /\ (call = "upload_file" /\ Called /\ res.xfer) =>
            IF rpath.abs \/ Len(rpath.segs) > 1
            THEN StoredAfterEnsure
            ELSE ~Issued(srv, "CWD") /\ srv.log[StorAt].cwd = before.srv.cwd
    /\ NoStoreWithoutEnsure

\* An ensure called from inside another directory ended at its path.
C20_Witness ==
    /\ Ensured /\ ret = "true" /\ rpath.segs # <<>>
    /\ before.srv.cwd # Root /\ before.srv.cwd # rpath.segs
    /\ srv.cwd = rpath.segs

\* The local path of the call is missing, or is not a regular file.
NoLocalFile0 ==
    lpath \notin DOMAIN before.lfs \/ before.lfs[lpath].kind # "file"

\* The requests the call has issued, and the server's files and directories,
\* as they were when the call began.
NoRemoteRequest ==
    /\ srv.log = before.srv.log
    /\ ~Issued(srv, "SIZE") /\ ~Issued(srv, "MKD") /\ ~Issued(srv, "STOR")
    /\ srv = before.srv

\* C21: upload_file with a local path that is missing or not a regular file
\* returns false without any remote request; download_file whose size query
\* fails (an error reply, or a reply without a size) returns false and
\* leaves the local file system as it was.
C21_EarlyFailureTouchesNothing ==
    /\ (call = "upload_file" /\ Called /\ NoLocalFile0) =>
            /\ pc = "done" /\ ret = "false"
            /\ NoRemoteRequest
            /\ lfs = before.lfs
    /\ (call = "download_file" /\ Called /\ SizeKind0 # "val") =>
            /\ pc = "done" /\ ret = "false"
            /\ lfs = before.lfs
            /\ ~res.xfer /\ ~Issued(srv, "RETR")

\* upload_file was called on a directory and returned.
C21_Witness ==
    /\ call = "upload_file" /\ pc = "done"
    /\ IsDir(before.lfs, lpath) /\ ret = "false"

\* download_file returned after a size query that failed, with a local
\* file present.
C21_WitnessDownload ==
    /\ call = "download_file" /\ pc = "done" /\ SizeKind0 # "val"
    /\ IsFile(before.lfs, lpath) /\ ret = "false"

\* The call of download_recursive that is running, and whether its loop is
\* about to take a line of its listing.
Top == stack[Len(stack)]

ItemPending ==
    /\ call = "download_directory" /\ pc = "walk"
    /\ stack # <<>> /\ Top.entered /\ Top.items # <<>>

\* What a listing line stands for: "none" (discarded: fewer than 3 tokens),
\* "skip" (named . or ..), "dir" or "file", with the name.
Entry(kind, name) == [kind |-> kind, name |-> name]

Claimed(item) ==
    LET toks == Split(item)
        n == Len(toks)
        name == IF n >= 9 THEN Join(SubSeq(toks, 9, n)) ELSE toks[n]
    IN IF n < 3 THEN Entry("none", "")
       ELSE IF name \in {".", ".."} THEN Entry("skip", name)
       ELSE IF SubSeq(toks[1], 1, 1) = "d" THEN Entry("dir", name)
       ELSE Entry("file", name)

\* What the lines of ListingLines stand for, written out.
Expected ==
    [item \in ListingLines |->
        CASE item \in {"", "total 0", "-rw-r--r-- f"} -> Entry("none", "")
          [] item = "d x f" -> Entry("dir", "f")
          [] item = "Drwx 1 f" -> Entry("file", "f")
          [] item = "-rw-r--r-- 1 ftp ftp 1 Jan 1 00:00 f" -> Entry("file", "f")
          [] item = "drwxr-xr-x 1 ftp ftp 0 Jan 1 00:00 b" -> Entry("dir", "b")
          [] item = "drwxr-xr-x 1 ftp ftp 0 Jan 1 00:00 ." -> Entry("skip", ".")
          [] item = "drwxr-xr-x 1 ftp ftp 0 Jan 1 00:00 .." -> Entry("skip", "..")
          [] item = "drwxr-xr-x 2 ftp ftp 0 Jan 1 .." -> Entry("skip", "..")
          [] item = "drwxr-xr-x  1 ftp ftp 0 Jan  1 00:00 my  dir" -> Entry("dir", "my dir")
          [] item = "-rw-r--r-- 1 ftp ftp 1 Jan 1 00:00 . f" -> Entry("file", ". f")
          [] item = "\tdrwx 1 2 b " -> Entry("dir", "b")
          [] item = "lrwxrwxrwx 1 ftp ftp 1 Jan 1 00:00 g -> f" -> Entry("file", "g -> f")]

\* The step the loop makes for a line that stands for entry e.
TakenAs(e) ==
    LET remote_path == [Top.rdir EXCEPT !.segs = @ \o <<e.name>>]
        local_path == Top.ldir \o <<e.name>>
    IN CASE e.kind \in {"none", "skip"} ->
                /\ stack' = Advance(stack)
                /\ UNCHANGED <<srv, lfs, success_count, total_count, tried>>
         [] e.kind = "dir" ->
                /\ stack' = Append(Advance(stack),
                                   Frame(remote_path, local_path, Top.depth + 1))
                /\ UNCHANGED <<srv, lfs, success_count, total_count, tried>>
         [] e.kind = "file" ->
                /\ stack' = Advance(stack)
                /\ total_count' = total_count + 1
                /\ Len(tried') = Len(tried) + 1
                /\ tried'[Len(tried')].path = Resolve(srv, remote_path)
                /\ Issued(srv', "SIZE")

\* No call of download_recursive other than the first is for an entry named
\* . or .., and no such directory was requested.
NoDotRecursion ==
    /\ \A i \in 2..Len(stack) : Basename(stack[i].rdir.segs) \notin {".", ".."}
    /\ \A i \in 1..Len(srv.log) :
            srv.log[i].path # <<>> => Basename(srv.log[i].path) \notin {".", ".."}

\* C22: each listing line is taken as the rule says (fewer than 3 tokens:
\* discarded; directory iff the first token starts with 'd'; name: tokens 9
\* to the end joined by single spaces, else the last token; . and .. skipped),
\* the rule gives the written-out entries, and download_recursive is never
\* called for . or ...
C22_ListingParsed ==
    /\ [][ItemPending =>
            /\ Head(Top.items) \in ListingLines =>
                    Claimed(Head(Top.items)) = Expected[Head(Top.items)]
            /\ TakenAs(Claimed(Head(Top.items)))]_vars
    /\ []NoDotRecursion

\* download_recursive was called for the directory whose name the listing
\* gave as two words separated by two spaces, after a line named .. was
\* passed over.
C22_Witness ==
    /\ call = "download_directory" /\ pc = "walk" /\ Len(stack) = 2
    /\ before.srv.raw = [q \in {RemoteDir} |->
            <<"drwxr-xr-x 2 ftp ftp 0 Jan 1 ..",
              "drwxr-xr-x  1 ftp ftp 0 Jan  1 00:00 my  dir">>]
    /\ Top.rdir.segs = RemoteDir \o <<"my dir">>
    /\ Top.ldir = OutPath \o <<"my dir">>
    /\ total_count = 0

\* The directories of the local tree upload_directory was given, and the
\* remote directory that corresponds to one of them.
LocalDirs ==
    {q \in DOMAIN before.lfs :
        /\ IsDir(before.lfs, q)
        /\ Len(q) >= Len(lpath) /\ SubSeq(q, 1, Len(lpath)) = lpath}

RemoteCounterpart(q) == rpath.segs \o SubSeq(q, Len(lpath) + 1, Len(q))

\* A local directory that holds a file, directly or further down.
HoldsFile(q) ==
    \E x \in DOMAIN before.lfs :
        /\ IsFile(before.lfs, x)
        /\ Len(x) > Len(q) /\ SubSeq(x, 1, Len(q)) = q

UploadDirTrue == call = "upload_directory" /\ pc = "done" /\ ret = "true"

\* C23: when upload_directory returns true, every directory of the local
\* tree, the empty ones included, has its counterpart under remote_dir on
\* the server.
C23_EveryDirectoryCreated ==
    UploadDirTrue => \A q \in LocalDirs : RemoteCounterpart(q) \in srv.dirs

\* The same for the directories that hold a file.
C23_DirsWithFilesCreated ==
    UploadDirTrue =>
        \A q \in LocalDirs : HoldsFile(q) => RemoteCounterpart(q) \in srv.dirs

\* upload_directory returned true with every counterpart on the server,
\* having created them.
C23_AllCreated ==
    /\ UploadDirTrue /\ before.srv.dirs = {Root}
    /\ Cardinality(LocalDirs) = 3
    /\ \A q \in LocalDirs : RemoteCounterpart(q) \in srv.dirs

\* A directory operation is running or has returned.
InDirectoryOp == call \in {"upload_directory", "download_directory"}

Successes == Cardinality({i \in 1..Len(tried) : tried[i].ok})

\* The counters agree with the attempts made so far.
CountersInRange ==
    InDirectoryOp =>
        /\ 0 <= success_count /\ success_count <= total_count
        /\ total_count = Len(tried)
        /\ success_count = Successes

\* One step of a directory operation, seen from the counters: a file attempt
\* (one more entry in tried) or anything else.
CountersStep ==
    InDirectoryOp =>
        /\ total_count' >= total_count /\ success_count' >= success_count
        /\ IF Len(tried') = Len(tried) + 1
           THEN /\ total_count' = total_count + 1
                /\ success_count' =
                        IF tried'[Len(tried')].ok THEN success_count + 1
                        ELSE success_count
                /\ res'.ret = tried'[Len(tried')].ok
           ELSE /\ tried' = tried
                /\ UNCHANGED <<success_count, total_count>>

\* os.walk is about to yield a directory; the listing loop is about to take
\* a line that is discarded, skipped or a directory.
DirectoryNext ==
    call = "upload_directory" /\ pc = "walk" /\ todo # <<>> /\ Head(todo).kind = "dir"

NoFileLineNext == ItemPending /\ Claimed(Head(Top.items)).kind # "file"

FileNext ==
    \/ call = "upload_directory" /\ pc = "walk" /\ todo # <<>> /\ Head(todo).kind = "file"
    \/ ItemPending /\ Claimed(Head(Top.items)).kind = "file"

\* C24: in upload_directory and download_directory 0 <= success_count <=
\* total_count always; total_count grows by exactly 1 per file attempt and
\* success_count by exactly 1 per successful attempt; neither decreases;
\* directories and skipped listing lines change neither.
C24_CountersTally ==
    /\ []CountersInRange
    /\ [][CountersStep]_vars
    /\ [][(DirectoryNext \/ NoFileLineNext) =>
            UNCHANGED <<success_count, total_count>>]_vars
    /\ [][FileNext => total_count' = total_count + 1]_vars

\* A directory operation returned after a failed and a successful attempt
\* and at least one directory.
C24_Witness ==
    /\ InDirectoryOp /\ pc = "done"
    /\ total_count = 2 /\ success_count = 1
    /\ \/ call = "upload_directory" /\ Cardinality(LocalDirs) > 1
       \/ call = "download_directory" /\ hist.listed # {}

====
